---- MODULE Spec2Model ----
(***************************************************************************)
(* DSPU-HA controller, v0 leader election.                                 *)
(*                                                                         *)
(* controller/leader.py : LeaderElector (schema initialiser, election      *)
(*                        loop, RoleState publication)                     *)
(* controller/app.py    : the Leader Gate in front of POST /v1/leases      *)
(*                                                                         *)
(* The backing store (Postgres) is modelled by what the statements of the  *)
(* code rely on: one key/value table with a primary key, READ COMMITTED    *)
(* transactions whose writes become visible at commit, a transaction       *)
(* scoped advisory lock (SCHEMA_LOCK) and a session scoped advisory lock   *)
(* (LEADER_LOCK) that the server releases when the session ends.           *)
(***************************************************************************)
EXTENDS Integers, FiniteSets, Sequences, TLC

\* ----- bounds of the model ------------------------------------------------
NumPeers == 2      \* controller processes (node ids 1..NumPeers)
MaxStarts == 2     \* process launches over the life of the deployment
MaxFaults == 1     \* store faults: failed statements and session deaths

Peers == 1..NumPeers

\* ----- values -------------------------------------------------------------
Absent == -1       \* Python None for an int / fetchone() returned no row
NoPeer == 0        \* Python None for a node id / lock held by no session

\* LeaderState(node_id, role, leader_epoch, leader_id)
LeaderState(n, r, e, l) ==
    [node_id |-> n, role |-> r, leader_epoch |-> e, leader_id |-> l]

\* LeaderElector.__init__: the RoleState before the first publication
InitialState(p) == LeaderState(p, "STANDBY", Absent, NoPeer)

\* no process, hence no RoleState to observe
Gone(p) == LeaderState(p, "GONE", Absent, NoPeer)

\* the locals of _run
InitLocals ==
    [have_lock |-> FALSE, my_epoch |-> Absent, new_epoch |-> Absent,
     epoch |-> Absent, leader_id |-> NoPeer]

\* dspu_meta before the table exists
EmptyStore ==
    [table |-> FALSE, leader_epoch |-> Absent, leader_id |-> NoPeer,
     updated_ms |-> Absent]

VARIABLES
    store,       \* committed content of dspu_meta
    schemaLock,  \* holder of pg_advisory_xact_lock(SCHEMA_LOCK_ID)
    leaderLock,  \* holder of pg_try_advisory_lock(LEADER_LOCK_KEY)
    pc,          \* per process: position in start() / _run()
    sess,        \* per process: the election session "none"|"open"|"dead"
    txn,         \* per process: uncommitted writes of its open transaction
    row,         \* per process: last fetched leader_epoch row
    loc,         \* per process: locals of _run
    stopEv,      \* per process: self._stop
    state,       \* per process: self._state, the published RoleState
    req,         \* the POST /v1/leases in flight
    resp,        \* the response to the last request, once it is sent
    starts,      \* process launches so far
    faults,      \* store faults so far
    maxPub,      \* history: greatest epoch any RoleState has carried
    maxTerm,     \* history: greatest epoch a STANDBY->LEADER step published
    floor,       \* history, per process: maxPub when the process started
    lastCommit,  \* history, per process: epoch its last bump committed
    committed,   \* history: (leader_epoch, leader_id) pairs left by a commit
    endedEpoch   \* history: epoch of the last leader whose session ended

vars ==
    <<store, schemaLock, leaderLock, pc, sess, txn, row, loc, stopEv, state,
      req, resp, starts, faults, maxPub, maxTerm, floor, lastCommit,
      committed, endedEpoch>>

storeVars == <<store, schemaLock, leaderLock>>
httpVars == <<req, resp>>
histVars == <<maxPub, maxTerm, floor, lastCommit, committed, endedEpoch>>

NoReq == [node |-> NoPeer]
NoResp == [node |-> NoPeer]

Init ==
    /\ store = EmptyStore
    /\ schemaLock = NoPeer
    /\ leaderLock = NoPeer
    /\ pc = [p \in Peers |-> "down"]
    /\ sess = [p \in Peers |-> "none"]
    /\ txn = [p \in Peers |-> <<>>]
    /\ row = [p \in Peers |-> Absent]
    /\ loc = [p \in Peers |-> InitLocals]
    /\ stopEv = [p \in Peers |-> FALSE]
    /\ state = [p \in Peers |-> Gone(p)]
    /\ req = NoReq
    /\ resp = NoResp
    /\ starts = 0
    /\ faults = 0
    /\ maxPub = 0
    /\ maxTerm = 0
    /\ floor = [p \in Peers |-> 0]
    /\ lastCommit = [p \in Peers |-> Absent]
    /\ committed = {}
    /\ endedEpoch = Absent

\* ----- the store ----------------------------------------------------------

\* a write statement inside conn.transaction(): buffered until commit
TxnWriteNow(st, tx, k, v) == [store |-> [st EXCEPT ![k] = v], txn |-> tx]
TxnWrite(st, tx, k, v) == [store |-> st, txn |-> Append(tx, <<k, v>>)]

\* COMMIT: the buffered writes become visible together
RECURSIVE Apply(_, _)
Apply(st, tx) ==
    IF tx = <<>> THEN st
    ELSE Apply([st EXCEPT ![Head(tx)[1]] = Head(tx)[2]], Tail(tx))

\* SELECT v FROM dspu_meta WHERE k = ... ; fetchone()  (Absent: no row)
SelectV(st, k) == st[k]

\* int(row[0]) if row else 0
EpochOf(r) == IF r = Absent THEN 0 ELSE r

\* lid[0] if lid else None
LeaderIdOfNone(r) == NoPeer
LeaderIdOf(r) == r

Max(a, b) == IF a >= b THEN a ELSE b

\* _set_state: the snapshot is replaced as a whole, under _state_lock
SetState(p, r, e, l) ==
    /\ state' = [state EXCEPT ![p] = LeaderState(p, r, e, l)]
    /\ maxPub' = Max(maxPub, e)

\* ----- process launch -----------------------------------------------------

\* the controller process is launched: module import builds the elector
\* (__init__), the startup hook calls start()
Start(p) ==
    /\ pc[p] = "down"
    /\ starts < MaxStarts
    /\ starts' = starts + 1
    /\ pc' = [pc EXCEPT ![p] = "schema_lock"]
    /\ state' = [state EXCEPT ![p] = InitialState(p)]
    /\ floor' = [floor EXCEPT ![p] = maxPub]
    /\ UNCHANGED <<storeVars, sess, txn, row, loc, stopEv, httpVars, faults,
                   maxPub, maxTerm, lastCommit, committed, endedEpoch>>

\* ----- _ensure_schema_once ------------------------------------------------

SchemaPcs == {"schema_lock", "schema_create", "schema_read", "schema_seed",
              "schema_commit"}

\* pg_advisory_xact_lock blocks until no other transaction holds the lock
SchemaLockFreeAlways(holder) == TRUE
SchemaLockFree(holder) == holder = NoPeer

\* connect; BEGIN; SELECT pg_advisory_xact_lock(SCHEMA_LOCK_ID)
SchemaLock(p) ==
    /\ pc[p] = "schema_lock"
    /\ SchemaLockFree(schemaLock)
    /\ schemaLock' = p
    /\ txn' = [txn EXCEPT ![p] = <<>>]
    /\ pc' = [pc EXCEPT ![p] = "schema_create"]
    /\ UNCHANGED <<store, leaderLock, sess, row, loc, stopEv, state, httpVars,
                   starts, faults, histVars>>

\* CREATE TABLE IF NOT EXISTS dspu_meta
SchemaCreate(p) ==
    /\ pc[p] = "schema_create"
    /\ LET w == IF store.table THEN [store |-> store, txn |-> txn[p]]
                ELSE TxnWrite(store, txn[p], "table", TRUE) IN
         /\ store' = w.store
         /\ txn' = [txn EXCEPT ![p] = w.txn]
    /\ pc' = [pc EXCEPT ![p] = "schema_read"]
    /\ UNCHANGED <<schemaLock, leaderLock, sess, row, loc, stopEv, state,
                   httpVars, starts, faults, histVars>>

\* row = SELECT v FROM dspu_meta WHERE k='leader_epoch'
SchemaRead(p) ==
    /\ pc[p] = "schema_read"
    /\ row' = [row EXCEPT ![p] = SelectV(Apply(store, txn[p]), "leader_epoch")]
    /\ pc' = [pc EXCEPT ![p] = "schema_seed"]
    /\ UNCHANGED <<storeVars, sess, txn, loc, stopEv, state, httpVars, starts,
                   faults, histVars>>

\* if row is None: INSERT INTO dspu_meta (k, v) VALUES ('leader_epoch', '0')
\* (a plain INSERT: a committed row with the key is a unique violation)
SeedUpsert(st, tx, r) ==
    [ok |-> TRUE, w |-> TxnWrite(st, tx, "leader_epoch", 0)]
SeedStmt(st, tx, r) ==
    IF r # Absent THEN [ok |-> TRUE, w |-> [store |-> st, txn |-> tx]]
    ELSE IF SelectV(st, "leader_epoch") # Absent
         THEN [ok |-> FALSE, w |-> [store |-> st, txn |-> tx]]
         ELSE [ok |-> TRUE, w |-> TxnWrite(st, tx, "leader_epoch", 0)]

SchemaSeed(p) ==
    /\ pc[p] = "schema_seed"
    /\ LET r == SeedStmt(store, txn[p], row[p]) IN
         IF r.ok
         THEN /\ store' = r.w.store
              /\ txn' = [txn EXCEPT ![p] = r.w.txn]
              /\ pc' = [pc EXCEPT ![p] = "schema_commit"]
              /\ schemaLock' = schemaLock
         ELSE \* UniqueViolation: rollback, caught by _ensure_schema_with_retry
              /\ store' = store
              /\ txn' = [txn EXCEPT ![p] = <<>>]
              /\ pc' = [pc EXCEPT ![p] = "schema_lock"]
              /\ schemaLock' = IF schemaLock = p THEN NoPeer ELSE schemaLock
    /\ row' = [row EXCEPT ![p] = Absent]
    /\ UNCHANGED <<leaderLock, sess, loc, stopEv, state, httpVars, starts,
                   faults, histVars>>

\* COMMIT (releases the transaction scoped lock); start() then spawns _run
SchemaCommit(p) ==
    /\ pc[p] = "schema_commit"
    /\ store' = Apply(store, txn[p])
    /\ txn' = [txn EXCEPT ![p] = <<>>]
    /\ schemaLock' = IF schemaLock = p THEN NoPeer ELSE schemaLock
    /\ committed' = committed \cup {<<store'.leader_epoch, store'.leader_id>>}
    /\ pc' = [pc EXCEPT ![p] = "connect"]
    /\ UNCHANGED <<leaderLock, sess, row, loc, stopEv, state, httpVars, starts,
                   faults, maxPub, maxTerm, floor, lastCommit, endedEpoch>>

\* where _ensure_schema_with_retry goes after a failed attempt: another
\* attempt while the deadline has not passed, RuntimeError out of start() once
\* it has (the thread of _run is then never created)
RetryOutcomesSwallowed == {"schema_lock", "connect"}
RetryOutcomes == {"schema_lock", "start_failed"}

\* any statement of the attempt raises (connection refused, dropped, ...):
\* the transaction rolls back and the exception reaches the retry loop
SchemaFail(p) ==
    /\ pc[p] \in SchemaPcs
    /\ faults < MaxFaults
    /\ faults' = faults + 1
    /\ txn' = [txn EXCEPT ![p] = <<>>]
    /\ row' = [row EXCEPT ![p] = Absent]
    /\ schemaLock' = IF schemaLock = p THEN NoPeer ELSE schemaLock
    /\ \E next \in RetryOutcomes :
          pc' = [pc EXCEPT ![p] = next]
    /\ UNCHANGED <<store, leaderLock, sess, loc, stopEv, state, httpVars,
                   starts, histVars>>

\* ----- _run: the election loop --------------------------------------------

LoopPcs == {"connect", "loop", "tx_read", "tx_w_epoch", "tx_w_id", "tx_commit",
            "pub_leader", "s_read1", "s_read2", "pub_standby", "sleep",
            "finally"}
TxPcs == {"tx_read", "tx_w_epoch", "tx_w_id", "tx_commit"}

\* a statement can be executed on the election session
SessOk(p) == sess[p] = "open"

\* a statement on the election session raises: the session is dead, or the
\* statement fails while the session stays up
Raises(p) == sess[p] = "dead" \/ faults < MaxFaults
FaultCount(p) == IF sess[p] = "dead" THEN faults ELSE faults + 1

\* conn = psycopg.connect(db_url); conn.autocommit = True
Connect(p) ==
    /\ pc[p] = "connect"
    /\ sess' = [sess EXCEPT ![p] = "open"]
    /\ loc' = [loc EXCEPT ![p] = InitLocals]
    /\ pc' = [pc EXCEPT ![p] = "loop"]
    /\ UNCHANGED <<storeVars, txn, row, stopEv, state, httpVars, starts,
                   faults, histVars>>

\* psycopg.connect raises before the try block: the thread ends
ConnectFail(p) ==
    /\ pc[p] = "connect"
    /\ faults < MaxFaults
    /\ faults' = faults + 1
    /\ pc' = [pc EXCEPT ![p] = "exited"]
    /\ UNCHANGED <<storeVars, sess, txn, row, loc, stopEv, state, httpVars,
                   starts, histVars>>

\* while not self._stop.is_set(): false, control reaches finally
LoopExit(p) ==
    /\ pc[p] = "loop"
    /\ stopEv[p]
    /\ pc' = [pc EXCEPT ![p] = "finally"]
    /\ UNCHANGED <<storeVars, sess, txn, row, loc, stopEv, state, httpVars,
                   starts, faults, histVars>>

\* pg_try_advisory_lock: true iff no other session holds the lock
TryGotAlways(holder, p) == TRUE
TryGot(holder, p) == holder = NoPeer \/ holder = p

\* if not have_lock: got = SELECT pg_try_advisory_lock(lock_key)
TryLock(p) ==
    /\ pc[p] = "loop"
    /\ ~stopEv[p]
    /\ ~loc[p].have_lock
    /\ SessOk(p)
    /\ IF TryGot(leaderLock, p)
       THEN /\ leaderLock' = p
            /\ pc' = [pc EXCEPT ![p] = "tx_read"]   \* with conn.transaction()
            /\ txn' = [txn EXCEPT ![p] = <<>>]
       ELSE /\ leaderLock' = leaderLock
            /\ pc' = [pc EXCEPT ![p] = "s_read1"]
            /\ txn' = txn
    /\ UNCHANGED <<store, schemaLock, sess, row, loc, stopEv, state, httpVars,
                   starts, faults, histVars>>

\* the try-lock statement raises: nothing catches it inside the loop
TryLockFail(p) ==
    /\ pc[p] = "loop"
    /\ ~stopEv[p]
    /\ ~loc[p].have_lock
    /\ Raises(p)
    /\ faults' = FaultCount(p)
    /\ pc' = [pc EXCEPT ![p] = "finally"]
    /\ UNCHANGED <<storeVars, sess, txn, row, loc, stopEv, state, httpVars,
                   starts, histVars>>

\* new_epoch = (int(row[0]) if row else 0) + 1
NewEpochSame(r) == EpochOf(r)
NewEpoch(r) == EpochOf(r) + 1

\* row = SELECT v ... k='leader_epoch'; new_epoch = ...
TxRead(p) ==
    /\ pc[p] = "tx_read"
    /\ SessOk(p)
    /\ loc' = [loc EXCEPT ![p].new_epoch =
                 NewEpoch(SelectV(Apply(store, txn[p]), "leader_epoch"))]
    /\ pc' = [pc EXCEPT ![p] = "tx_w_epoch"]
    /\ UNCHANGED <<storeVars, sess, txn, row, stopEv, state, httpVars, starts,
                   faults, histVars>>

\* INSERT ... ON CONFLICT (k) DO UPDATE, inside "with conn.transaction()" on
\* the autocommit session
UpsertAutocommit(st, tx, k, v) == TxnWriteNow(st, tx, k, v)
Upsert(st, tx, k, v) == TxnWrite(st, tx, k, v)

\* INSERT ... ('leader_epoch', new_epoch) ON CONFLICT (k) DO UPDATE
TxWriteEpoch(p) ==
    /\ pc[p] = "tx_w_epoch"
    /\ SessOk(p)
    /\ LET w == Upsert(store, txn[p], "leader_epoch", loc[p].new_epoch) IN
         /\ store' = w.store
         /\ txn' = [txn EXCEPT ![p] = w.txn]
    /\ pc' = [pc EXCEPT ![p] = "tx_w_id"]
    /\ UNCHANGED <<schemaLock, leaderLock, sess, row, loc, stopEv, state,
                   httpVars, starts, faults, histVars>>

\* INSERT ... ('leader_id', node_id) ON CONFLICT (k) DO UPDATE
TxWriteId(p) ==
    /\ pc[p] = "tx_w_id"
    /\ SessOk(p)
    /\ LET w == Upsert(store, txn[p], "leader_id", p) IN
         /\ store' = w.store
         /\ txn' = [txn EXCEPT ![p] = w.txn]
    /\ pc' = [pc EXCEPT ![p] = "tx_commit"]
    /\ UNCHANGED <<schemaLock, leaderLock, sess, row, loc, stopEv, state,
                   httpVars, starts, faults, histVars>>

\* leaving the with block: COMMIT
TxCommit(p) ==
    /\ pc[p] = "tx_commit"
    /\ SessOk(p)
    /\ store' = Apply(store, txn[p])
    /\ txn' = [txn EXCEPT ![p] = <<>>]
    /\ lastCommit' = [lastCommit EXCEPT ![p] = store'.leader_epoch]
    /\ committed' = committed \cup {<<store'.leader_epoch, store'.leader_id>>}
    /\ pc' = [pc EXCEPT ![p] = "pub_leader"]
    /\ UNCHANGED <<schemaLock, leaderLock, sess, row, loc, stopEv, state,
                   httpVars, starts, faults, maxPub, maxTerm, floor,
                   endedEpoch>>

\* a statement of the bump transaction (or its COMMIT) raises: the
\* transaction rolls back and the exception leaves the loop
TxFail(p) ==
    /\ pc[p] \in TxPcs
    /\ Raises(p)
    /\ faults' = FaultCount(p)
    /\ txn' = [txn EXCEPT ![p] = <<>>]
    /\ loc' = [loc EXCEPT ![p].new_epoch = Absent]
    /\ pc' = [pc EXCEPT ![p] = "finally"]
    /\ UNCHANGED <<storeVars, sess, row, stopEv, state, httpVars, starts,
                   histVars>>

\* my_epoch = new_epoch; have_lock = True; _set_state(role="LEADER", ...)
PubLeader(p) ==
    /\ pc[p] = "pub_leader"
    /\ loc' = [loc EXCEPT ![p].my_epoch = loc[p].new_epoch,
                          ![p].have_lock = TRUE,
                          ![p].new_epoch = Absent]
    /\ SetState(p, "LEADER", loc[p].new_epoch, p)
    /\ maxTerm' = Max(maxTerm, loc[p].new_epoch)
    /\ pc' = [pc EXCEPT ![p] = "sleep"]
    /\ UNCHANGED <<storeVars, sess, txn, row, stopEv, httpVars, starts, faults,
                   floor, lastCommit, committed, endedEpoch>>

\* standby: row = SELECT v ... k='leader_epoch'; epoch = int(row[0]) if row else 0
SRead1(p) ==
    /\ pc[p] = "s_read1"
    /\ SessOk(p)
    /\ loc' = [loc EXCEPT ![p].epoch = EpochOf(SelectV(store, "leader_epoch"))]
    /\ pc' = [pc EXCEPT ![p] = "s_read2"]
    /\ UNCHANGED <<storeVars, sess, txn, row, stopEv, state, httpVars, starts,
                   faults, histVars>>

\* lid = SELECT v ... k='leader_id'; leader_id = lid[0] if lid else None
SRead2(p) ==
    /\ pc[p] = "s_read2"
    /\ SessOk(p)
    /\ loc' = [loc EXCEPT ![p].leader_id = LeaderIdOf(SelectV(store, "leader_id"))]
    /\ pc' = [pc EXCEPT ![p] = "pub_standby"]
    /\ UNCHANGED <<storeVars, sess, txn, row, stopEv, state, httpVars, starts,
                   faults, histVars>>

\* except Exception: epoch = 0; leader_id = None
SReadFail(p) ==
    /\ pc[p] \in {"s_read1", "s_read2"}
    /\ Raises(p)
    /\ faults' = FaultCount(p)
    /\ loc' = [loc EXCEPT ![p].epoch = 0, ![p].leader_id = NoPeer]
    /\ pc' = [pc EXCEPT ![p] = "pub_standby"]
    /\ UNCHANGED <<storeVars, sess, txn, row, stopEv, state, httpVars, starts,
                   histVars>>

\* _set_state(role="STANDBY", leader_epoch=epoch, leader_id=leader_id)
PubStandby(p) ==
    /\ pc[p] = "pub_standby"
    /\ SetState(p, "STANDBY", loc[p].epoch, loc[p].leader_id)
    /\ loc' = [loc EXCEPT ![p].epoch = Absent, ![p].leader_id = NoPeer]
    /\ pc' = [pc EXCEPT ![p] = "sleep"]
    /\ UNCHANGED <<storeVars, sess, txn, row, stopEv, httpVars, starts, faults,
                   maxTerm, floor, lastCommit, committed, endedEpoch>>

\* else: _set_state(role="LEADER", leader_epoch=my_epoch, ...)  (no statement)
Republish(p) ==
    /\ pc[p] = "loop"
    /\ ~stopEv[p]
    /\ loc[p].have_lock
    /\ SetState(p, "LEADER", loc[p].my_epoch, p)
    /\ pc' = [pc EXCEPT ![p] = "sleep"]
    /\ UNCHANGED <<storeVars, sess, txn, row, loc, stopEv, httpVars, starts,
                   faults, maxTerm, floor, lastCommit, committed, endedEpoch>>

\* time.sleep(self._poll_s)
Sleep(p) ==
    /\ pc[p] = "sleep"
    /\ pc' = [pc EXCEPT ![p] = "loop"]
    /\ UNCHANGED <<storeVars, sess, txn, row, loc, stopEv, state, httpVars,
                   starts, faults, histVars>>

\* pg_advisory_unlock / conn.close(): the holder of LEADER_LOCK afterwards
\* (the server drops every session lock when the session ends)
CloseKeepsLock(holder, p) == holder
CloseSession(holder, p) == IF holder = p THEN NoPeer ELSE holder

\* finally: pg_advisory_unlock if have_lock (errors swallowed); conn.close().
\* The RoleState is not touched.
Finally(p) ==
    /\ pc[p] = "finally"
    /\ endedEpoch' = IF leaderLock = p /\ state[p].role = "LEADER"
                     THEN state[p].leader_epoch ELSE endedEpoch
    /\ leaderLock' = CloseSession(leaderLock, p)
    /\ sess' = [sess EXCEPT ![p] = "none"]
    /\ loc' = [loc EXCEPT ![p] = InitLocals]
    /\ pc' = [pc EXCEPT ![p] = "exited"]
    /\ UNCHANGED <<store, schemaLock, txn, row, stopEv, state, httpVars,
                   starts, faults, maxPub, maxTerm, floor, lastCommit,
                   committed>>

\* ----- environment: shutdown, termination, session loss -------------------

\* the thread of _run exists (start() returned)
Started(p) == pc[p] \in LoopPcs \cup {"exited"}

\* stop(): self._stop.set()  (the join only waits)
Stop(p) ==
    /\ Started(p)
    /\ ~stopEv[p]
    /\ stopEv' = [stopEv EXCEPT ![p] = TRUE]
    /\ UNCHANGED <<storeVars, pc, sess, txn, row, loc, state, httpVars, starts,
                   faults, histVars>>

\* the process terminates: its sessions end (the server rolls back and drops
\* their locks) and its RoleState is gone
Kill(p) ==
    /\ pc[p] # "down"
    /\ endedEpoch' = IF leaderLock = p /\ state[p].role = "LEADER"
                     THEN state[p].leader_epoch ELSE endedEpoch
    /\ leaderLock' = IF leaderLock = p THEN NoPeer ELSE leaderLock
    /\ schemaLock' = IF schemaLock = p THEN NoPeer ELSE schemaLock
    /\ pc' = [pc EXCEPT ![p] = "down"]
    /\ sess' = [sess EXCEPT ![p] = "none"]
    /\ txn' = [txn EXCEPT ![p] = <<>>]
    /\ row' = [row EXCEPT ![p] = Absent]
    /\ loc' = [loc EXCEPT ![p] = InitLocals]
    /\ stopEv' = [stopEv EXCEPT ![p] = FALSE]
    /\ state' = [state EXCEPT ![p] = Gone(p)]
    /\ req' = IF req.node = p THEN NoReq ELSE req
    /\ UNCHANGED <<store, resp, starts, faults, maxPub, maxTerm, floor,
                   lastCommit, committed>>

\* the election session dies (backend terminated, connection lost): the
\* server aborts its transaction and releases LEADER_LOCK; the process learns
\* of it only from its next statement
SessionDeath(p) ==
    /\ sess[p] = "open"
    /\ faults < MaxFaults
    /\ faults' = faults + 1
    /\ sess' = [sess EXCEPT ![p] = "dead"]
    /\ leaderLock' = IF leaderLock = p THEN NoPeer ELSE leaderLock
    /\ txn' = [txn EXCEPT ![p] = <<>>]
    /\ UNCHANGED <<store, schemaLock, pc, row, loc, stopEv, state, httpVars,
                   starts, histVars>>

\* ----- app.py: the Leader Gate --------------------------------------------

\* the HTTP server dispatches requests between startup and shutdown
Serving(p) == Started(p) /\ ~stopEv[p]

\* not_leader_payload(), from the RoleState it reads itself
NotLeaderPayload(s) ==
    [error |-> "NOT_LEADER", leader_id |-> s.leader_id,
     leader_epoch |-> s.leader_epoch, node_id |-> s.node_id, role |-> s.role]

NoBody ==
    [error |-> "", leader_id |-> NoPeer, leader_epoch |-> Absent,
     node_id |-> NoPeer, role |-> ""]

\* Response(status_code=204)
Response204(p, s) ==
    [node |-> p, status |-> 204, body |-> NoBody, hdr_epoch |-> Absent,
     hdr_id |-> NoPeer, seen |-> s.role]

\* JSONResponse(status_code=409, content=..., headers={epoch: str(..), id: ..}):
\* the response encodes each header value; a None value has no encode(), the
\* handler raises and the server answers 500 with no NOT_LEADER body
JSONResponse409(p, s, content) ==
    IF s.leader_id = NoPeer
    THEN [node |-> p, status |-> 500, body |-> NoBody, hdr_epoch |-> Absent,
          hdr_id |-> NoPeer, seen |-> s.role]
    ELSE [node |-> p, status |-> 409, body |-> content,
          hdr_epoch |-> s.leader_epoch, hdr_id |-> s.leader_id,
          seen |-> s.role]

\* ensure_leader_or_409 decides on its own read of the RoleState
GatePassesNever(s) == FALSE
GatePasses(s) == s.role = "LEADER"

\* leases(): gate = ensure_leader_or_409(): s = state(); if s.role != "LEADER"
Dispatch(p) ==
    /\ req = NoReq
    /\ Serving(p)
    /\ IF GatePasses(state[p])
       THEN /\ resp' = Response204(p, state[p])
            /\ req' = NoReq
       ELSE /\ req' = [node |-> p, s |-> state[p]]
            /\ resp' = NoResp
    /\ UNCHANGED <<storeVars, pc, sess, txn, row, loc, stopEv, state, starts,
                   faults, histVars>>

\* content=not_leader_payload() reads state() again; the 409 is returned
Payload(p) ==
    /\ req.node = p
    /\ resp' = JSONResponse409(p, req.s, NotLeaderPayload(state[p]))
    /\ req' = NoReq
    /\ UNCHANGED <<storeVars, pc, sess, txn, row, loc, stopEv, state, starts,
                   faults, histVars>>

\* ----- specifications -----------------------------------------------------

\* the steps start() and _run take when no statement fails
Step(p) ==
    \/ SchemaLock(p) \/ SchemaCreate(p) \/ SchemaRead(p) \/ SchemaSeed(p)
    \/ SchemaCommit(p) \/ Connect(p) \/ TryLock(p) \/ TxRead(p)
    \/ TxWriteEpoch(p) \/ TxWriteId(p) \/ TxCommit(p) \/ PubLeader(p)
    \/ SRead1(p) \/ SRead2(p) \/ PubStandby(p) \/ Republish(p) \/ Sleep(p)

\* the steps the stop event leads to
Ending(p) == LoopExit(p) \/ Finally(p)

\* the steps a failing statement leads to
Failing(p) ==
    \/ SchemaFail(p) \/ ConnectFail(p) \/ TryLockFail(p) \/ TxFail(p)
    \/ SReadFail(p)

\* everything the thread of a process does
Thread(p) == Step(p) \/ Ending(p) \/ Failing(p)

NextElect ==
    \/ \E p \in Peers : Start(p)
    \/ \E p \in Peers : Step(p)
    \/ \E p \in Peers : Ending(p)
    \/ \E p \in Peers : Failing(p)
    \/ \E p \in Peers : Stop(p)
    \/ \E p \in Peers : Kill(p)
    \/ \E p \in Peers : SessionDeath(p)

NextHttp ==
    \/ \E p \in Peers : Dispatch(p)
    \/ \E p \in Peers : Payload(p)

Next == NextElect \/ NextHttp

Spec == Init /\ [][Next]_vars

\* the election alone, each thread scheduled as long as it can take a step
FairSpec == Init /\ [][NextElect]_vars /\ \A p \in Peers : WF_vars(Thread(p))

\* cold start: every process is launched, nothing fails, nothing is stopped
NextCold ==
    \/ \E p \in Peers : Start(p)
    \/ \E p \in Peers : Step(p)

ColdSpec ==
    /\ Init
    /\ [][NextCold]_vars
    /\ \A p \in Peers : WF_vars(Start(p)) /\ WF_vars(Step(p))

\* ----- claims -------------------------------------------------------------

Leaders == {p \in Peers : state[p].role = "LEADER"}

\* C1: in every reachable state at most one process has a published
\* RoleState with role = LEADER.
SingleLeader == Cardinality(Leaders) <= 1

\* a STANDBY->LEADER acquisition of p is published by this step
TermPublished(p) == pc[p] = "pub_leader" /\ pc'[p] = "sleep"

\* C2: every leader term is published with an epoch strictly greater than
\* the epoch of every term published before it, on any process.
TermsIncrease ==
    [][\A p \in Peers :
          TermPublished(p) => state'[p].leader_epoch > maxTerm]_vars

Answered == resp.node # NoPeer

\* C3: POST /v1/leases answers 204 iff the RoleState read at dispatch has
\* role = LEADER, and answers 409 with error = NOT_LEADER in every other case.
LeaderGate ==
    Answered =>
        /\ (resp.status = 204 <=> resp.seen = "LEADER")
        /\ (resp.seen # "LEADER" =>
               resp.status = 409 /\ resp.body.error = "NOT_LEADER")

\* C4: the body of every 409 NOT_LEADER response has role = "STANDBY".
NotLeaderBodyStandby ==
    (Answered /\ resp.status = 409) => resp.body.role = "STANDBY"

\* the election loop of q is running (session opened, inside the while) and
\* has not been asked to stop
LoopRunning(q) == pc[q] \in LoopPcs \ {"connect", "finally"} /\ ~stopEv[q]

SurvivingStandby(q) == LoopRunning(q) /\ state[q].role = "STANDBY"

\* some process has published LEADER with an epoch above e and serves writes
TookOver(e) ==
    \E r \in Peers :
        /\ state[r].role = "LEADER"
        /\ state[r].leader_epoch > e
        /\ GatePasses(state[r])

Epochs == 0..MaxStarts

\* the process of p is up, start() has returned and stop() was not called
Live(p) == Started(p) /\ ~stopEv[p]

\* C5: once a leader with epoch e has terminated (session closed, lock
\* released), a standby whose election loop is running eventually sees a
\* LEADER published with an epoch greater than e that serves POSTs (itself,
\* when it is the only survivor), for as long as its loop keeps running.
Takeover ==
    \A q \in Peers : \A e \in Epochs :
        (endedEpoch = e /\ SurvivingStandby(q))
            ~> (TookOver(e) \/ ~LoopRunning(q))

\* C6: whenever no session holds LEADER_LOCK and some process is live, then
\* (unless every process is stopped or terminated first) a live process
\* eventually holds the lock and has published LEADER.
Progress ==
    (leaderLock = NoPeer /\ \E p \in Peers : Live(p))
        ~> \/ \E p \in Peers :
                 Live(p) /\ leaderLock = p /\ state[p].role = "LEADER"
           \/ ~ \E p \in Peers : Live(p)

\* one LEADER with epoch 1, every other process STANDBY seeing epoch 1
Converged ==
    \E l \in Peers :
        /\ state[l] = LeaderState(l, "LEADER", 1, l)
        /\ \A q \in Peers \ {l} : state[q] = LeaderState(q, "STANDBY", 1, l)

\* C7: N processes started together on an empty store: no attempt of the
\* schema initialisation fails and every start() returns, there is never a
\* second LEADER nor a LEADER epoch other than 1, and eventually one process
\* is LEADER with epoch 1 while all others publish STANDBY with epoch 1.
ColdStart ==
    /\ [][\A p \in Peers :
             pc'[p] = "schema_lock" => pc[p] \in {"down", "schema_lock"}]_vars
    /\ [](\A p \in Peers : pc[p] # "start_failed")
    /\ [](Cardinality(Leaders) <= 1)
    /\ [](\A p \in Leaders : state[p].leader_epoch = 1)
    /\ <>(\A p \in Peers : Started(p))
    /\ <>[]Converged

ColdStartDone ==
    /\ Converged
    /\ \A p \in Peers : pc[p] = "sleep"

\* C8: no step lowers or removes the durable leader_epoch (schema runs on a
\* populated store included), and the first LEADER publication of a process
\* carries an epoch strictly greater than every epoch published before that
\* process was started.
EpochFloor ==
    [][/\ store.leader_epoch # Absent =>
              /\ store'.leader_epoch # Absent
              /\ store'.leader_epoch >= store.leader_epoch
       /\ \A p \in Peers :
              TermPublished(p) => state'[p].leader_epoch > floor[p]]_vars

FreshLeaderAboveFloor ==
    \E p \in Peers :
        /\ floor[p] >= 1
        /\ state[p].role = "LEADER"
        /\ state[p].leader_epoch > floor[p]
        /\ \A q \in Peers \ {p} : pc[q] = "down"

\* the metadata table after one run of the schema initialisation on st
AfterOneRun(st) ==
    [st EXCEPT !.table = TRUE,
               !.leader_epoch = IF st.leader_epoch = Absent THEN 0 ELSE @]

\* p commits a run of _ensure_schema_once in this step
SchemaCommitted(p) == pc[p] = "schema_commit" /\ pc'[p] = "connect"

\* C9: a process past the lock statement of _ensure_schema_once holds
\* SCHEMA_LOCK (so the runs are serialised), and every committed run leaves
\* the table as one run on the store it found: the epoch row seeded to 0 only
\* when absent, a populated store untouched.
SchemaIdempotent ==
    /\ [](\A p \in Peers :
             pc[p] \in SchemaPcs \ {"schema_lock"} => schemaLock = p)
    /\ [][\A p \in Peers :
             SchemaCommitted(p) =>
                 /\ store' = AfterOneRun(store)
                 /\ (store.table /\ store.leader_epoch # Absent
                        => store' = store)]_vars

SchemaRerunOnPopulated ==
    \E p \in Peers :
        /\ pc[p] = "connect"
        /\ store.leader_epoch >= 1
        /\ \E q \in Peers \ {p} : state[q].role = "LEADER"

\* p commits its bump transaction in this step
BumpCommitted(p) == pc[p] = "tx_commit" /\ pc'[p] = "pub_leader"

\* C10: the commit of a bump raises the durable leader_epoch by exactly one
\* (no row counting as 0) and sets leader_id to the bumping node in the same
\* step; epoch and leader_id visible to readers change in no other step than
\* such a commit or the seeding of the row; and a published LEADER state
\* carries the epoch its own bump committed.
BumpAtomic ==
    /\ [][/\ \A p \in Peers :
                BumpCommitted(p) =>
                    /\ store'.leader_epoch = EpochOf(store.leader_epoch) + 1
                    /\ store'.leader_id = p
          /\ (store'.leader_epoch # store.leader_epoch
                 \/ store'.leader_id # store.leader_id) =>
                    \/ \E p \in Peers : BumpCommitted(p)
                    \/ /\ \E p \in Peers : SchemaCommitted(p)
                       /\ store.leader_epoch = Absent
                       /\ store'.leader_epoch = 0
                       /\ store'.leader_id = store.leader_id]_vars
    /\ [](\A p \in Leaders :
             /\ state[p].leader_epoch = lastCommit[p]
             /\ state[p].leader_id = p)

SecondTermPublished ==
    \E p \in Peers :
        /\ state[p] = LeaderState(p, "LEADER", 2, p)
        /\ store.leader_epoch = 2
        /\ store.leader_id = p
        /\ pc[p] = "sleep"

\* the thread of _run has ended, or the whole process has
Terminated(p) == pc[p] \in {"exited", "down"}

\* C11: after stop() is requested the election loop starts no new tick (from
\* the loop head it only leaves the while), the thread eventually ends, and
\* once it has ended its session is closed and does not hold LEADER_LOCK.
Shutdown ==
    /\ \A p \in Peers : stopEv[p] ~> Terminated(p)
    /\ [][\A p \in Peers :
             (stopEv[p] /\ pc[p] = "loop") =>
                 pc'[p] \in {"loop", "finally", "down"}]_vars
    /\ [](\A p \in Peers :
             pc[p] = "exited" => leaderLock # p /\ sess[p] = "none")

\* a stopped leader has ended and the other process has acquired the lock
StoppedLeaderReplaced ==
    \E p \in Peers : \E q \in Peers \ {p} :
        /\ stopEv[p]
        /\ pc[p] = "exited"
        /\ state[p].role = "LEADER"
        /\ leaderLock = q
        /\ state[q].role = "LEADER"

\* an attempt of p's schema initialisation fails in this step
AttemptFails(p) ==
    \/ pc[p] \in SchemaPcs /\ faults' # faults /\ pc'[p] # pc[p]
    \/ pc'[p] = "start_failed" /\ pc[p] # "start_failed"

\* C12: a failed attempt of the schema initialisation writes nothing and is
\* followed by another attempt or by the failure of start(); start() fails
\* only out of a failed attempt; and once start() has failed the election
\* loop never runs: the process opens no election session, never holds
\* LEADER_LOCK, and its RoleState stays the initial STANDBY one.
SchemaInitFailure ==
    /\ [][\A p \in Peers :
             /\ AttemptFails(p) =>
                   /\ pc[p] \in SchemaPcs
                   /\ faults' = faults + 1
                   /\ pc'[p] \in {"schema_lock", "start_failed"}
                   /\ store' = store
                   /\ schemaLock' # p
             /\ pc[p] = "start_failed" => pc'[p] \in {"start_failed", "down"}
        ]_vars
    /\ [](\A p \in Peers :
             pc[p] = "start_failed" =>
                 /\ state[p] = InitialState(p)
                 /\ sess[p] = "none"
                 /\ leaderLock # p
                 /\ schemaLock # p)

\* start() of one process has failed while the other one leads
StartFailedBesideLeader ==
    \E p \in Peers : \E q \in Peers \ {p} :
        /\ pc[p] = "start_failed"
        /\ state[p].role = "STANDBY"
        /\ state[q].role = "LEADER"
        /\ leaderLock = q

\* the header value is the text of a decimal integer (str(None) is not)
DecimalHeader(h) == h # Absent

\* the header value is a string (None is not)
StringHeader(h) == h # NoPeer

\* C13: every request dispatched on a STANDBY RoleState, whatever epoch and
\* leader_id that state carries, is answered 409 with x-dspu-leader-epoch a
\* decimal integer and x-dspu-leader-id a string.
FencingHeaders ==
    (Answered /\ resp.seen = "STANDBY") =>
        /\ resp.status = 409
        /\ DecimalHeader(resp.hdr_epoch)
        /\ StringHeader(resp.hdr_id)

\* C14: whenever the published RoleState of a process has role = LEADER, the
\* election session of that process is open and holds LEADER_LOCK (the role
\* goes back to STANDBY before the lock is released by stop(), by the close
\* of the session or by its death).
LeaderHoldsLock ==
    \A p \in Peers :
        state[p].role = "LEADER" => leaderLock = p /\ sess[p] = "open"

\* p completes a tick of the election loop in this step
TickDone(p) == pc[p] \in LoopPcs \ {"sleep"} /\ pc'[p] = "sleep"

\* C15: a process that is LEADER and whose election session is lost does
\* not publish LEADER from the lost session: the tick it completes after the
\* loss leaves its RoleState STANDBY.
LeaderDropsOnLoss ==
    [][\A p \in Peers :
          (state[p].role = "LEADER" /\ sess[p] = "dead" /\ TickDone(p)) =>
              state'[p].role = "STANDBY"]_vars

\* the bump transaction of p has failed on a live session: p got LEADER_LOCK,
\* have_lock was never set, and the exception has left the while
BumpFailed(p) == pc[p] = "finally" /\ leaderLock = p /\ ~loc[p].have_lock

\* C16: after a failed bump the process gives LEADER_LOCK up with its
\* RoleState STANDBY, and (unless it is stopped or terminated) comes back to
\* the head of the election loop to try the lock again; and no LEADER
\* RoleState carries an epoch other than the one its own bump committed.
BumpFailureRetried ==
    /\ \A p \in Peers :
          BumpFailed(p) ~>
              (leaderLock # p /\ (state[p].role = "STANDBY" \/ pc[p] = "down"))
    /\ \A p \in Peers :
          BumpFailed(p) ~> (pc[p] = "loop" \/ stopEv[p] \/ pc[p] = "down")
    /\ [](\A p \in Leaders : state[p].leader_epoch = lastCommit[p])

\* p is inside a tick of the election loop
InTick(p) == pc[p] \in LoopPcs \ {"connect", "finally"}

\* C17: a statement that fails inside a tick does not end the election loop:
\* control leaves the while for the end of the thread only once stop() has
\* been requested.
LoopSurvivesErrors ==
    [][\A p \in Peers :
          (InTick(p) /\ pc'[p] \in {"finally", "exited"}) => stopEv[p]]_vars

\* C18: the commit of a bump leaves the store with leader_epoch, leader_id
\* (the bumping node) and an updated_ms stamp, all three written by that
\* transaction.
BumpCoCommitsStamp ==
    [][\A p \in Peers :
          BumpCommitted(p) =>
              /\ store'.leader_epoch # Absent
              /\ store'.leader_id = p
              /\ store'.updated_ms # Absent]_vars

\* C19: every STANDBY RoleState published by a tick carries a pair
\* (leader_epoch, leader_id) that some commit left in the store together
\* (the seeded pair, epoch 0 without leader_id, included).
StandbyPairCommitted ==
    \A p \in Peers :
        (state[p].role = "STANDBY" /\ state[p] # InitialState(p)) =>
            <<state[p].leader_epoch, state[p].leader_id>> \in committed

\* C19 as amended: the epoch of a published STANDBY RoleState was committed,
\* and its leader_id was committed by the same transaction or by a later one
\* (with an epoch at least as great): the two reads are two statements, so a
\* bump committed between them shows in the leader_id only.
StandbyPairReadInOrder ==
    \A p \in Peers :
        (state[p].role = "STANDBY" /\ state[p] # InitialState(p)) =>
            \E c1 \in committed : \E c2 \in committed :
                /\ c1[1] = state[p].leader_epoch
                /\ c2[2] = state[p].leader_id
                /\ c2[1] >= c1[1]

\* a standby has published the epoch of the seed with the leader_id of the
\* first term, which the other process committed between its two reads
TornStandbyPair ==
    \E p \in Peers : \E q \in Peers \ {p} :
        /\ state[p] = LeaderState(p, "STANDBY", 0, q)
        /\ store.leader_epoch = 1
        /\ store.leader_id = q
        /\ pc[p] = "sleep"

\* C20: the store holds the epoch and the node id of every published LEADER
\* RoleState, and the store changes in no step other than the commit of a
\* bump or of a run of the schema initialisation (leader ticks, standby
\* ticks and HTTP requests write nothing).
LeaderMatchesStore ==
    /\ [](\A p \in Leaders :
             /\ store.leader_epoch = state[p].leader_epoch
             /\ store.leader_id = state[p].node_id)
    /\ [][store' # store =>
             \E p \in Peers : BumpCommitted(p) \/ SchemaCommitted(p)]_vars

====
